---- MODULE Spec2Model ----
(***************************************************************************)
(* A model of examples/langchain-simple/run_example.py: the instrumented   *)
(* request / validate / report pipeline of main(), the generator's         *)
(* generate_structured_recipes(), the MetadataExtractor callback handler   *)
(* and the RecipeCollection schema.                                        *)
(*                                                                         *)
(* Optional values (Python None, a missing dict key) are sequences of      *)
(* length 0 or 1: <<>> is "absent", <<v>> is "present with value v".       *)
(***************************************************************************)
EXTENDS Integers, Sequences, FiniteSets, TLC

VARIABLES
    pc,             \* position of the running code
    run_id,         \* main: run_id, the session id of this execution
    ingredients,    \* the item list handed to generate_structured_recipes
    response,       \* the LLMResult handed to on_llm_end (generation records)
    reply,          \* the raw text the model returned, as the parser sees it
    model_outcome,  \* what the model endpoint did: none / reply / a failure
    persist_outcome,\* what writing generated_recipes.json did: none / ok / failed
    metadata,       \* MetadataExtractor.metadata
    callback_raised,\* whether the last on_llm_end call raised
    sent_prompt,    \* the prompt handed to the model
    result,         \* recipe_collection: the value generate_structured_recipes returned
    error,          \* the exception that left the try body of main
    artifact,       \* content of generated_recipes.json
    branch,         \* which branch of main's outer try ran: none / success / error
    returned,       \* how main ended: running / normal / raised
    start_time,     \* main: start_time, taken before generate_structured_recipes
    elapsed_time,   \* main: elapsed_time, in clock ticks
    trace,          \* the model invocation and every telemetry attempt, in order
    calls,          \* number of model calls started so far
    clock           \* time.time()

vars == <<pc, run_id, ingredients, response, reply, model_outcome, persist_outcome,
          metadata, callback_raised, sent_prompt, result, error, artifact, branch,
          returned, start_time, elapsed_time,
          trace, calls, clock>>

-----------------------------------------------------------------------------
(* Bounds of the model *)

\* longest item list
MaxItems == 2
\* most records in one reply
MaxRecipes == 4
\* most generation records (candidates, over all generations) in one response
MaxGenRecords == 3
\* most model calls observed by one MetadataExtractor
MaxCalls == 2

\* the number of recipes RecipeCollection declares ("List of three recipes")
DeclaredArity == 3

Items == {"chicken", "rice"}
RunIds == {"recipe-gen-0a", "recipe-gen-0b"}

RECURSIVE SeqsUpTo(_, _)
SeqsUpTo(S, n) ==
    IF n = 0 THEN {<<>>}
    ELSE LET shorter == SeqsUpTo(S, n - 1)
         IN  shorter \cup {Append(s, x) : s \in {t \in shorter : Len(t) = n - 1}, x \in S}

ItemLists == SeqsUpTo(Items, MaxItems)

-----------------------------------------------------------------------------
(* The output schema: Recipe and RecipeCollection *)

\* Recipe: the six required fields
RecipeFields == {"name", "ingredients", "instructions",
                 "prep_time_minutes", "cook_time_minutes", "servings"}

\* What a reply's record holds for a field: a value the field's declared type
\* accepts, no value at all, or a value the declared type rejects.
FieldStates == {"ok", "missing", "wrong_type"}

ValidRecord == [f \in RecipeFields |-> "ok"]

\* records with exactly one defective field
DefectiveRecords ==
    {[ValidRecord EXCEPT ![f] = d] : f \in RecipeFields, d \in {"missing", "wrong_type"}}

\* Recipe(**record) validates iff every field is present and of its type
RecipeValidates(rec) == \A f \in RecipeFields : rec[f] = "ok"

\* PydanticOutputParser(pydantic_object=RecipeCollection): a reply is either not
\* JSON at all, or a JSON object whose "recipes" list holds the given records.
MalformedReply == [json |-> FALSE, recipes |-> <<>>]

RECURSIVE ValidReplies(_)
ValidReplies(n) ==
    IF n = 0 THEN {<<>>}
    ELSE ValidReplies(n - 1) \cup {[i \in 1..n |-> ValidRecord]}

\* well-formed replies of up to MaxRecipes records, at most one of them defective
RecordLists ==
    ValidReplies(MaxRecipes) \cup
    {[i \in 1..n |-> IF i = k THEN d ELSE ValidRecord] :
        n \in 1..MaxRecipes, k \in 1..MaxRecipes, d \in DefectiveRecords}

Replies == {MalformedReply} \cup {[json |-> TRUE, recipes |-> rs] : rs \in RecordLists}

\* RecipeCollection.model_validate: recipes: List[Recipe], every element validated
CollectionValidates(recipes) == \A i \in 1..Len(recipes) : RecipeValidates(recipes[i])

\* parse as it would be if records that fail validation were dropped
parse_DropInvalid(text) ==
    IF ~text.json THEN [ok |-> FALSE, error |-> "MalformedOutput", recipes |-> <<>>]
    ELSE [ok |-> TRUE, error |-> "none",
          recipes |-> SelectSeq(text.recipes, RecipeValidates)]

\* self.parser.parse(text): the validated RecipeCollection, or the failure raised
parse(text) ==
    IF ~text.json THEN [ok |-> FALSE, error |-> "MalformedOutput", recipes |-> <<>>]
    ELSE IF CollectionValidates(text.recipes)
         THEN [ok |-> TRUE, error |-> "none", recipes |-> text.recipes]
         ELSE [ok |-> FALSE, error |-> "SchemaViolation", recipes |-> <<>>]

-----------------------------------------------------------------------------
(* The prompt *)

SystemPrompt == "You are a professional chef and cooking assistant."
HumanHead == "Create three recipes using these ingredients: "
FormatInstructions == "<format_instructions>"
HumanTail == "Make sure each recipe: ..."
Separator == ", "

\* ", ".join(ingredients), as the sequence of its pieces
RECURSIVE Join(_)
Join(items) ==
    IF Len(items) = 0 THEN <<>>
    ELSE IF Len(items) = 1 THEN <<items[1]>>
    ELSE <<items[1], Separator>> \o Join(Tail(items))

\* RenderPrompt as it would be if the items were joined last to first
RenderPrompt_Reversed(items) ==
    <<SystemPrompt, HumanHead>>
        \o Join([i \in 1..Len(items) |-> items[Len(items) + 1 - i]])
        \o <<FormatInstructions, HumanTail>>

\* prompt_template rendered with ingredients and format_instructions
RenderPrompt(items) ==
    <<SystemPrompt, HumanHead>> \o Join(items) \o <<FormatInstructions, HumanTail>>

\* full_prompt, the text logged with the prompt-logged event
FullPrompt(items) == <<HumanHead>> \o Join(items) \o <<FormatInstructions, HumanTail>>

-----------------------------------------------------------------------------
(* MetadataExtractor *)

MetadataKeys == {"start_time", "model_info", "input_prompts", "model",
                 "end_time", "duration", "usage", "error"}

\* MetadataExtractor.__init__: self.metadata = {}
EmptyMetadata == [k \in MetadataKeys |-> <<>>]

\* default_config.ollama.model_name
ModelName == "qwen3:8b"

\* usage counters an endpoint may report for one generation record
UsageCounters == {[prompt_eval_count |-> 1, eval_count |-> 3],
                  [prompt_eval_count |-> 2, eval_count |-> 5]}

\* a generation record: generation_info is None or a dict with the counters
Candidates == {[generation_info |-> <<>>]} \cup
              {[generation_info |-> <<u>>] : u \in UsageCounters}

RECURSIVE CandidateListsOf(_)
CandidateListsOf(n) ==
    IF n = 0 THEN {<<>>}
    ELSE {<<c>> \o l : c \in Candidates, l \in CandidateListsOf(n - 1)}

\* response.generations with exactly n generation records in all, every
\* generation holding at least one candidate
RECURSIVE ResponsesOf(_)
ResponsesOf(n) ==
    IF n = 0 THEN {<<>>}
    ELSE UNION {{<<g>> \o r : g \in CandidateListsOf(k), r \in ResponsesOf(n - k)} :
                  k \in 1..n}

Responses == UNION {ResponsesOf(n) : n \in 0..MaxGenRecords}

\* the response of one call with one prompt: a single generation
SinglePromptResponses == {r \in Responses : Len(r) = 1}

\* on_llm_start
on_llm_start(md, serialized, prompts, now) ==
    [md EXCEPT !["start_time"] = <<now>>,
               !["model_info"] = <<serialized>>,
               !["input_prompts"] = <<prompts>>]

\* on_llm_end, the inner loop: for gen_inner in gen
RECURSIVE WalkCandidates(_, _, _)
WalkCandidates(gen, j, acc) ==
    IF acc.raised \/ j > Len(gen) THEN acc
    ELSE IF gen[j].generation_info # <<>>
         THEN LET generation_info == gen[1].generation_info
              IN  IF generation_info = <<>>
                  THEN [acc EXCEPT !.raised = TRUE]
                  ELSE WalkCandidates(gen, j + 1,
                         [acc EXCEPT
                            !.total_input = @ + generation_info[1].prompt_eval_count,
                            !.total_output = @ + generation_info[1].eval_count])
         ELSE WalkCandidates(gen, j + 1, acc)

\* on_llm_end, the outer loop: for gen in response.generations
RECURSIVE WalkGenerations(_, _, _)
WalkGenerations(generations, i, acc) ==
    IF acc.raised \/ i > Len(generations) THEN acc
    ELSE WalkGenerations(generations, i + 1, WalkCandidates(generations[i], 1, acc))

\* on_llm_end: the metadata it leaves, and whether it raised
on_llm_end(md, resp, now) ==
    LET totals == WalkGenerations(resp, 1,
                    [raised |-> FALSE, total_input |-> 0, total_output |-> 0])
        usage == [input_tokens |-> totals.total_input,
                  output_tokens |-> totals.total_output,
                  total_tokens |-> totals.total_input + totals.total_output]
    IN  IF totals.raised
        THEN [raised |-> TRUE, metadata |-> md]
        ELSE [raised |-> FALSE,
              metadata |-> [md EXCEPT !["model"] = <<ModelName>>,
                                      !["end_time"] = <<now>>,
                                      !["duration"] = <<now - md["start_time"][1]>>,
                                      !["usage"] = <<usage>>]]

\* on_llm_error as it would be if it also cleared the usage of the call
on_llm_error_ClearsUsage(md, err) ==
    [md EXCEPT !["error"] = <<err>>, !["usage"] = <<>>]

\* on_llm_error
on_llm_error(md, err) == [md EXCEPT !["error"] = <<err>>]

-----------------------------------------------------------------------------
(* Telemetry events and the trace *)

TelemetryKinds == {"session_start", "llm_call", "llm_response", "session_end"}

\* the fields of a telemetry call; "model_invoke" marks the request to the model
Event(kind, ok, session_id, prompt_number, turn_number) ==
    [kind |-> kind, ok |-> ok, session_id |-> session_id,
     prompt_number |-> prompt_number, turn_number |-> turn_number,
     text |-> <<>>, summary |-> "none", n_recipes |-> 0, error_text |-> "none",
     elapsed_time_ms |-> 0, tokens |-> <<>>, meta |-> <<>>]

\* metadata.get('usage', {}).get(key)
UsageGet(md, key) == IF md["usage"] = <<>> THEN <<>> ELSE <<md["usage"][1][key]>>

-----------------------------------------------------------------------------
(* main and generate_structured_recipes *)

Init ==
    /\ pc = "main_start"
    /\ run_id \in RunIds
    /\ ingredients \in ItemLists
    /\ response = <<>>
    /\ reply = MalformedReply
    /\ model_outcome = "none"
    /\ persist_outcome = "none"
    /\ metadata = EmptyMetadata
    /\ callback_raised = FALSE
    /\ sent_prompt = <<>>
    /\ result = <<>>
    /\ error = "none"
    /\ artifact = <<>>
    /\ branch = "none"
    /\ returned = "running"
    /\ start_time = <<>>
    /\ elapsed_time = <<>>
    /\ trace = <<>>
    /\ calls = 0
    /\ clock = 0

\* LogSessionStart as it would be without its own try/except: a failure
\* reaches main's outer handler
LogSessionStart_Uncaught ==
    /\ pc = "main_start"
    /\ \E ok \in BOOLEAN :
         /\ trace' = Append(trace,
                       [Event("session_start", ok, run_id, 1, 0) EXCEPT
                          !.text = <<"Generate structured recipes using LangChain with Ollama">>])
         /\ pc' = IF ok THEN "generate" ELSE "except"
         /\ error' = IF ok THEN error ELSE "TelemetryUnavailable"
    /\ UNCHANGED <<run_id, ingredients, response, reply, model_outcome, persist_outcome,
                   metadata, callback_raised, sent_prompt, result, artifact,
                   branch, returned, start_time, elapsed_time, calls, clock>>

\* main: client.log_session_start in its own try/except
LogSessionStart ==
    /\ pc = "main_start"
    /\ \E ok \in BOOLEAN :
         trace' = Append(trace,
                    [Event("session_start", ok, run_id, 1, 0) EXCEPT
                       !.text = <<"Generate structured recipes using LangChain with Ollama">>])
    /\ pc' = "generate"
    /\ UNCHANGED <<run_id, ingredients, response, reply, model_outcome, persist_outcome,
                   metadata, callback_raised, sent_prompt, result, error, artifact,
                   branch, returned, start_time, elapsed_time, calls, clock>>

\* main: the extractor and the generator are built, start_time is taken and
\* generate_structured_recipes is entered; it builds the chain and the prompt
StartGenerate ==
    /\ pc = "generate"
    /\ metadata' = EmptyMetadata
    /\ start_time' = <<clock>>
    /\ clock' = clock + 1
    /\ sent_prompt' = RenderPrompt(ingredients)
    /\ pc' = "invoke"
    /\ UNCHANGED <<run_id, ingredients, response, reply, model_outcome, persist_outcome,
                   callback_raised, result, error, artifact, branch, returned,
                   elapsed_time, trace, calls>>

\* chain.invoke, the model step: on_llm_start, the request, then on_llm_end on a
\* reply or on_llm_error on a failure.  An exception raised inside on_llm_end is
\* logged by the callback manager and does not reach the chain.
InvokeModel ==
    /\ pc = "invoke"
    /\ calls' = calls + 1
    /\ trace' = Append(trace, Event("model_invoke", TRUE, run_id, 0, 0))
    /\ clock' = clock + 2
    /\ LET started == on_llm_start(metadata, "OllamaLLM", sent_prompt, clock)
       IN  \/ \E text \in Replies, resp \in SinglePromptResponses :
                LET ended == on_llm_end(started, resp, clock + 1)
                IN  /\ model_outcome' = "reply"
                    /\ reply' = text
                    /\ metadata' = ended.metadata
                    /\ callback_raised' = ended.raised
                    /\ error' = error
                    /\ pc' = "parse"
           \/ \E failure \in {"EndpointUnreachable", "ModelError"} :
                /\ model_outcome' = failure
                /\ metadata' = on_llm_error(started, failure)
                /\ error' = failure
                /\ pc' = "except"
                /\ UNCHANGED <<reply, callback_raised>>
    /\ UNCHANGED <<run_id, ingredients, response, persist_outcome, sent_prompt, result,
                   artifact, branch, returned, start_time, elapsed_time>>

\* ParseReply as it would be if a reply that fails to parse were asked for again
ParseReply_Retry ==
    /\ pc = "parse"
    /\ LET parsed == parse(reply)
       IN  IF parsed.ok
           THEN /\ result' = <<parsed.recipes>>
                /\ pc' = "log_call"
                /\ error' = error
           ELSE /\ error' = IF calls < 2 THEN error ELSE parsed.error
                /\ pc' = IF calls < 2 THEN "invoke" ELSE "except"
                /\ result' = result
    /\ UNCHANGED <<run_id, ingredients, response, reply, model_outcome, persist_outcome,
                   metadata, callback_raised, sent_prompt, artifact, branch, returned,
                   start_time, elapsed_time, trace, calls, clock>>

\* ParseReply as it would be if the prompt were logged before the reply is parsed
ParseReply_LogsBeforeParsing ==
    /\ pc = "parse"
    /\ \E ok \in BOOLEAN :
         trace' = Append(trace,
                    [Event("llm_call", ok, run_id, 1, 1) EXCEPT
                       !.text = FullPrompt(ingredients)])
    /\ LET parsed == parse(reply)
       IN  IF parsed.ok
           THEN /\ result' = <<parsed.recipes>>
                /\ pc' = "log_response"
                /\ error' = error
           ELSE /\ error' = parsed.error
                /\ pc' = "except"
                /\ result' = result
    /\ UNCHANGED <<run_id, ingredients, response, reply, model_outcome, persist_outcome,
                   metadata, callback_raised, sent_prompt, artifact, branch, returned,
                   start_time, elapsed_time, calls, clock>>

\* chain.invoke, the parser step: self.parser on the model's text
ParseReply ==
    /\ pc = "parse"
    /\ LET parsed == parse(reply)
       IN  IF parsed.ok
           THEN /\ result' = <<parsed.recipes>>
                /\ pc' = "log_call"
                /\ error' = error
           ELSE /\ error' = parsed.error
                /\ pc' = "except"
                /\ result' = result
    /\ UNCHANGED <<run_id, ingredients, response, reply, model_outcome, persist_outcome,
                   metadata, callback_raised, sent_prompt, artifact, branch, returned,
                   start_time, elapsed_time, trace, calls, clock>>

\* LogLlmCall as it would be with the two logging calls written in the other
\* order: the response is logged, then the prompt
LogLlmCall_ResponseFirst ==
    /\ pc = "log_call"
    /\ \E ok \in BOOLEAN :
         trace' = trace \o
                    <<[Event("llm_response", ok, run_id, 1, 1) EXCEPT
                         !.n_recipes = Len(result[1])],
                      [Event("llm_call", ok, run_id, 1, 1) EXCEPT
                         !.text = FullPrompt(ingredients)]>>
    /\ pc' = "persist"
    /\ UNCHANGED <<run_id, ingredients, response, reply, model_outcome, persist_outcome,
                   metadata, callback_raised, sent_prompt, result, error, artifact,
                   branch, returned, start_time, elapsed_time, calls, clock>>

\* generate_structured_recipes: self.client.log_llm_call_new, first call of the
\* shared try block; its failure leaves the block
LogLlmCall ==
    /\ pc = "log_call"
    /\ \E ok \in BOOLEAN :
         /\ trace' = Append(trace,
                       [Event("llm_call", ok, run_id, 1, 1) EXCEPT
                          !.text = FullPrompt(ingredients)])
         /\ pc' = IF ok THEN "log_response" ELSE "persist"
    /\ UNCHANGED <<run_id, ingredients, response, reply, model_outcome, persist_outcome,
                   metadata, callback_raised, sent_prompt, result, error, artifact,
                   branch, returned, start_time, elapsed_time, calls, clock>>

\* LogLlmResponse as it would be outside the try block: a failure reaches main's
\* handler
LogLlmResponse_Uncaught ==
    /\ pc = "log_response"
    /\ \E ok \in BOOLEAN :
         /\ trace' = Append(trace,
                       [Event("llm_response", ok, run_id, 1, 1) EXCEPT
                          !.n_recipes = Len(result[1]),
                          !.tokens = <<[input_tokens |-> UsageGet(metadata, "input_tokens"),
                                        output_tokens |-> UsageGet(metadata, "output_tokens"),
                                        total_tokens |-> UsageGet(metadata, "total_tokens")]>>])
         /\ pc' = IF ok THEN "persist" ELSE "except"
         /\ error' = IF ok THEN error ELSE "TelemetryUnavailable"
    /\ UNCHANGED <<run_id, ingredients, response, reply, model_outcome, persist_outcome,
                   metadata, callback_raised, sent_prompt, result, artifact,
                   branch, returned, start_time, elapsed_time, calls, clock>>

\* LogLlmResponse as it would be with the input and output counts exchanged
LogLlmResponse_SwapsTokens ==
    /\ pc = "log_response"
    /\ \E ok \in BOOLEAN :
         trace' = Append(trace,
                    [Event("llm_response", ok, run_id, 1, 1) EXCEPT
                       !.n_recipes = Len(result[1]),
                       !.tokens = <<[input_tokens |-> UsageGet(metadata, "output_tokens"),
                                     output_tokens |-> UsageGet(metadata, "input_tokens"),
                                     total_tokens |-> UsageGet(metadata, "total_tokens")]>>])
    /\ pc' = "persist"
    /\ UNCHANGED <<run_id, ingredients, response, reply, model_outcome, persist_outcome,
                   metadata, callback_raised, sent_prompt, result, error, artifact,
                   branch, returned, start_time, elapsed_time, calls, clock>>

\* generate_structured_recipes: self.client.log_llm_response, second call of the
\* shared try block
LogLlmResponse ==
    /\ pc = "log_response"
    /\ \E ok \in BOOLEAN :
         trace' = Append(trace,
                    [Event("llm_response", ok, run_id, 1, 1) EXCEPT
                       !.n_recipes = Len(result[1]),
                       !.tokens = <<[input_tokens |-> UsageGet(metadata, "input_tokens"),
                                     output_tokens |-> UsageGet(metadata, "output_tokens"),
                                     total_tokens |-> UsageGet(metadata, "total_tokens")]>>])
    /\ pc' = "persist"
    /\ UNCHANGED <<run_id, ingredients, response, reply, model_outcome, persist_outcome,
                   metadata, callback_raised, sent_prompt, result, error, artifact,
                   branch, returned, start_time, elapsed_time, calls, clock>>

\* main: elapsed_time, the printed recipes, and the dump to generated_recipes.json
Persist ==
    /\ pc = "persist"
    /\ elapsed_time' = <<clock - start_time[1]>>
    /\ clock' = clock + 1
    /\ \E ok \in BOOLEAN :
         IF ok
         THEN /\ persist_outcome' = "ok"
              /\ artifact' = result
              /\ pc' = "session_end"
              /\ error' = error
         ELSE /\ persist_outcome' = "failed"
              /\ error' = "PersistError"
              /\ pc' = "except"
              /\ artifact' = artifact
    /\ UNCHANGED <<run_id, ingredients, response, reply, model_outcome, metadata,
                   callback_raised, sent_prompt, result, branch, returned, start_time,
                   trace, calls>>

\* LogSessionEndSuccess as it would be without its own try/except: a failure
\* reaches main's handler, which logs the session end again
LogSessionEndSuccess_Uncaught ==
    /\ pc = "session_end"
    /\ \E ok \in BOOLEAN :
         /\ trace' = Append(trace,
                       [Event("session_end", ok, run_id, 1, 0) EXCEPT
                          !.summary = "success",
                          !.n_recipes = Len(result[1]),
                          !.elapsed_time_ms = elapsed_time[1],
                          !.meta = <<metadata>>])
         /\ branch' = IF ok THEN "success" ELSE branch
         /\ returned' = IF ok THEN "normal" ELSE returned
         /\ pc' = IF ok THEN "done" ELSE "except"
         /\ error' = IF ok THEN error ELSE "TelemetryUnavailable"
    /\ UNCHANGED <<run_id, ingredients, response, reply, model_outcome, persist_outcome,
                   metadata, callback_raised, sent_prompt, result, artifact,
                   start_time, elapsed_time, calls, clock>>

\* LogSessionEndSuccess as it would be with the turn number of the logging calls
\* of generate_structured_recipes
LogSessionEndSuccess_TurnOne ==
    /\ pc = "session_end"
    /\ \E ok \in BOOLEAN :
         trace' = Append(trace,
                    [Event("session_end", ok, run_id, 1, 1) EXCEPT
                       !.summary = "success",
                       !.n_recipes = Len(result[1]),
                       !.elapsed_time_ms = elapsed_time[1],
                       !.meta = <<metadata>>])
    /\ branch' = "success"
    /\ returned' = "normal"
    /\ pc' = "done"
    /\ UNCHANGED <<run_id, ingredients, response, reply, model_outcome, persist_outcome,
                   metadata, callback_raised, sent_prompt, result, error, artifact,
                   start_time, elapsed_time, calls, clock>>

\* main: client.log_session_end with the success summary, in its own try/except;
\* main then returns
LogSessionEndSuccess ==
    /\ pc = "session_end"
    /\ \E ok \in BOOLEAN :
         trace' = Append(trace,
                    [Event("session_end", ok, run_id, 1, 0) EXCEPT
                       !.summary = "success",
                       !.n_recipes = Len(result[1]),
                       !.elapsed_time_ms = elapsed_time[1],
                       !.meta = <<metadata>>])
    /\ branch' = "success"
    /\ returned' = "normal"
    /\ pc' = "done"
    /\ UNCHANGED <<run_id, ingredients, response, reply, model_outcome, persist_outcome,
                   metadata, callback_raised, sent_prompt, result, error, artifact,
                   start_time, elapsed_time, calls, clock>>

\* HandleError as it would be if the handler only printed the error
HandleError_NoSessionEnd ==
    /\ pc = "except"
    /\ branch' = "error"
    /\ returned' = "normal"
    /\ pc' = "done"
    /\ UNCHANGED <<run_id, ingredients, response, reply, model_outcome, persist_outcome,
                   metadata, callback_raised, sent_prompt, result, error, artifact,
                   start_time, elapsed_time, trace, calls, clock>>

\* main: except Exception as e: the troubleshooting text, then
\* client.log_session_end with the error summary in its own try/except; the
\* exception is not raised again and main returns
HandleError ==
    /\ pc = "except"
    /\ \E ok \in BOOLEAN :
         trace' = Append(trace,
                    [Event("session_end", ok, run_id, 1, 0) EXCEPT
                       !.summary = "error",
                       !.error_text = error])
    /\ branch' = "error"
    /\ returned' = "normal"
    /\ pc' = "done"
    /\ UNCHANGED <<run_id, ingredients, response, reply, model_outcome, persist_outcome,
                   metadata, callback_raised, sent_prompt, result, error, artifact,
                   start_time, elapsed_time, calls, clock>>

Next ==
    \/ LogSessionStart
    \/ StartGenerate
    \/ InvokeModel
    \/ ParseReply
    \/ LogLlmCall
    \/ LogLlmResponse
    \/ Persist
    \/ LogSessionEndSuccess
    \/ HandleError

Spec == Init /\ [][Next]_vars

-----------------------------------------------------------------------------
(* A MetadataExtractor on its own: the callbacks as a model calls them *)

\* the prompt of the configured default ingredients, handed to on_llm_start
DefaultPrompt == RenderPrompt(<<"chicken", "rice">>)

InitInstrumentor ==
    /\ pc = "cb_idle"
    /\ run_id = "none"
    /\ ingredients = <<>>
    /\ response = <<>>
    /\ reply = MalformedReply
    /\ model_outcome = "none"
    /\ persist_outcome = "none"
    /\ metadata = EmptyMetadata
    /\ callback_raised = FALSE
    /\ sent_prompt = DefaultPrompt
    /\ result = <<>>
    /\ error = "none"
    /\ artifact = <<>>
    /\ branch = "none"
    /\ returned = "running"
    /\ start_time = <<>>
    /\ elapsed_time = <<>>
    /\ trace = <<>>
    /\ calls = 0
    /\ clock = 0

\* a model call begins: on_llm_start
CallbackStart ==
    /\ pc = "cb_idle"
    /\ calls < MaxCalls
    /\ calls' = calls + 1
    /\ metadata' = on_llm_start(metadata, "OllamaLLM", sent_prompt, clock)
    /\ clock' = clock + 1
    /\ pc' = "cb_running"
    /\ UNCHANGED <<run_id, ingredients, response, reply, model_outcome, persist_outcome,
                   callback_raised, sent_prompt, result, error, artifact, branch,
                   returned, start_time, elapsed_time, trace>>

\* the call succeeds: on_llm_end(response)
CallbackEnd ==
    /\ pc = "cb_running"
    /\ \E resp \in Responses :
         LET ended == on_llm_end(metadata, resp, clock)
         IN  /\ response' = resp
             /\ metadata' = ended.metadata
             /\ callback_raised' = ended.raised
    /\ model_outcome' = "reply"
    /\ clock' = clock + 1
    /\ pc' = "cb_idle"
    /\ UNCHANGED <<run_id, ingredients, reply, persist_outcome, sent_prompt, result,
                   error, artifact, branch, returned, start_time, elapsed_time, trace,
                   calls>>

\* the call fails: on_llm_error(error)
CallbackError ==
    /\ pc = "cb_running"
    /\ \E failure \in {"EndpointUnreachable", "ModelError"} :
         /\ metadata' = on_llm_error(metadata, failure)
         /\ model_outcome' = failure
    /\ pc' = "cb_idle"
    /\ UNCHANGED <<run_id, ingredients, response, reply, persist_outcome,
                   callback_raised, sent_prompt, result, error, artifact, branch,
                   returned, start_time, elapsed_time, trace, calls, clock>>

NextInstrumentor ==
    \/ CallbackStart
    \/ CallbackEnd
    \/ CallbackError

SpecInstrumentor == InitInstrumentor /\ [][NextInstrumentor]_vars

-----------------------------------------------------------------------------
(* Properties *)

ModelFailures == {"EndpointUnreachable", "ModelError"}

Positions(kind) == {i \in 1..Len(trace) : trace[i].kind = kind}
Attempts(kind) == Cardinality(Positions(kind))
FailedAttempts == {i \in 1..Len(trace) : trace[i].kind \in TelemetryKinds /\ ~trace[i].ok}

\* the model answered and the answer is JSON
ReplyIsJson == model_outcome = "reply" /\ reply.json
\* some record of the answer misses a field or has a wrongly typed one
SomeRecordDefective ==
    ReplyIsJson /\ \E i \in 1..Len(reply.recipes) :
                     \E f \in RecipeFields : reply.recipes[i][f] # "ok"
\* the model answered with JSON in which every record satisfies every field
ReplyConforms == ReplyIsJson /\ ~SomeRecordDefective
\* the model call failed, or the answer did not validate
InvokeOrValidationFailed ==
    \/ model_outcome \in ModelFailures
    \/ model_outcome = "reply" /\ ~ReplyConforms

\* C1: the branch a finished run took, the value generate_structured_recipes
\* returned and the file written are fixed by what the model answered and by
\* whether the file could be written, whatever telemetry calls failed: they are
\* those of the run with the same answer in which no telemetry call fails.
\* In particular no telemetry failure ends the run before the model is asked.
C1_TelemetryNeverChangesBranch ==
    pc = "done" =>
        /\ model_outcome # "none"
        /\ error \in {"none", "PersistError", "MalformedOutput", "SchemaViolation"}
                    \cup ModelFailures
        /\ (result # <<>>) = ReplyConforms
        /\ ReplyConforms => (result = <<reply.recipes>> /\ persist_outcome # "none")
        /\ (branch = "success") = (ReplyConforms /\ persist_outcome = "ok")
        /\ (branch = "error") = ~(ReplyConforms /\ persist_outcome = "ok")
        /\ (artifact # <<>>) = (ReplyConforms /\ persist_outcome = "ok")
        /\ artifact # <<>> => artifact = result

\* C1 witness: a run that ended on the success branch although three telemetry
\* calls (session-start, response-logged, session-end) failed
C1_Witness ==
    /\ pc = "done"
    /\ branch = "success"
    /\ Cardinality(FailedAttempts) = 3

\* C2: in the trace of a run, session-start comes before the model invocation
\* and before any prompt-logged or response-logged attempt, prompt-logged comes
\* before response-logged, and a session-end attempt is the last event.
C2_TelemetryOrdered ==
    /\ \A j \in 1..Len(trace) :
         trace[j].kind \in {"model_invoke", "llm_call", "llm_response", "session_end"}
            => \E i \in 1..(j - 1) : trace[i].kind = "session_start"
    /\ \A j \in Positions("llm_response") :
         \E i \in 1..(j - 1) : trace[i].kind = "llm_call"
    /\ \A j \in Positions("session_end") : j = Len(trace)
    /\ pc = "done" => Attempts("session_end") >= 1

\* C2 witness: a finished run with all four telemetry attempts
C2_Witness ==
    /\ pc = "done"
    /\ [i \in 1..Len(trace) |-> trace[i].kind] =
         <<"session_start", "model_invoke", "llm_call", "llm_response", "session_end">>

\* C3: a finished run whose model call failed or whose reply did not validate
\* attempted session-end exactly once, with an error summary.
C3_ErrorSessionEndOnce ==
    (pc = "done" /\ InvokeOrValidationFailed) =>
        /\ Attempts("session_end") = 1
        /\ \A i \in Positions("session_end") : trace[i].summary = "error"

\* C3 witness: a finished run with a reply that did not validate, whose
\* session-start call had failed
C3_Witness ==
    /\ pc = "done"
    /\ model_outcome = "reply" /\ ~ReplyConforms
    /\ \E i \in FailedAttempts : trace[i].kind = "session_start"
    /\ Attempts("session_end") = 1

\* C4: after a model failure or a validation failure the orchestrator does not
\* finish normally: the failure reaches its caller as an error.
C4_FailureSurfacesToCaller ==
    (pc = "done" /\ InvokeOrValidationFailed) => returned = "raised"

\* C5: with an empty item list no telemetry is attempted, the model is not
\* invoked and the run ends with InvalidInput.
C5_EmptyInputFailsFast ==
    ingredients = <<>> =>
        /\ trace = <<>>
        /\ calls = 0
        /\ pc = "done" => error = "InvalidInput"

\* C8: a validated result holds as many records as the schema declares.
C8_ResultHasDeclaredArity ==
    result # <<>> => Len(result[1]) = DeclaredArity

C10_PromptAndResponseLoggedOnce ==
    (pc = "done" /\ result # <<>>) =>
        /\ Attempts("llm_call") = 1
        /\ Attempts("llm_response") = 1

(* Properties of the callbacks *)

RECURSIVE SumOfSeq(_)
SumOfSeq(ns) == IF ns = <<>> THEN 0 ELSE Head(ns) + SumOfSeq(Tail(ns))

RECURSIVE Flatten(_)
Flatten(generations) ==
    IF generations = <<>> THEN <<>> ELSE Head(generations) \o Flatten(Tail(generations))

HasCounters(c) == c.generation_info # <<>>
\* the generation records of the last response, and those that carry counters
Records == Flatten(response)
CountedRecords == SelectSeq(Records, HasCounters)
OwnInput == SumOfSeq([i \in 1..Len(CountedRecords) |->
                        CountedRecords[i].generation_info[1].prompt_eval_count])
OwnOutput == SumOfSeq([i \in 1..Len(CountedRecords) |->
                         CountedRecords[i].generation_info[1].eval_count])
\* on_llm_end has just run
AfterEnd == pc = "cb_idle" /\ calls > 0 /\ model_outcome = "reply"

\* C6: after on_llm_end on a response all of whose records carry counters, the
\* recorded input and output totals are the sums of the records' own counters.
C6_TotalsAreSumsOfOwnCounters ==
    (AfterEnd /\ Len(CountedRecords) = Len(Records)) =>
        /\ metadata["usage"] # <<>>
        /\ metadata["usage"][1].input_tokens = OwnInput
        /\ metadata["usage"][1].output_tokens = OwnOutput

\* C7: on_llm_end does not raise on a record without counters, wherever it
\* stands, and such records add nothing: the totals are those of the response
\* with these records taken out.
C7_RecordsWithoutCountersSkipped ==
    AfterEnd =>
        /\ ~callback_raised
        /\ LET stripped == [i \in 1..Len(response) |-> SelectSeq(response[i], HasCounters)]
               expected == WalkGenerations(stripped, 1,
                             [raised |-> FALSE, total_input |-> 0, total_output |-> 0])
           IN  /\ metadata["usage"] # <<>>
               /\ metadata["usage"][1].input_tokens = expected.total_input
               /\ metadata["usage"][1].output_tokens = expected.total_output

(* Properties of the whole run, continued *)

TelemetryPositions == {i \in 1..Len(trace) : trace[i].kind \in TelemetryKinds}
IsTelemetry(e) == e.kind \in TelemetryKinds
\* the kinds of the telemetry attempts, in order
TelemetryKindsInOrder ==
    LET t == SelectSeq(trace, IsTelemetry) IN [i \in 1..Len(t) |-> t[i].kind]

\* C11: no retries: the model is invoked at most once and each of the four
\* telemetry events is attempted at most once, in every state of every run.
C11_NoRetries ==
    /\ calls <= 1
    /\ Attempts("model_invoke") <= 1
    /\ \A k \in TelemetryKinds : Attempts(k) <= 1

\* C11 witness: a finished run in which the model call failed and both
\* telemetry calls made failed too, each attempted once
C11_Witness ==
    /\ pc = "done"
    /\ model_outcome \in ModelFailures
    /\ calls = 1
    /\ Cardinality(FailedAttempts) = 2
    /\ Len(trace) = 3

\* C12 as claimed: a finished run whose reply validated ended on the success
\* branch with a success summary and attempted no error summary.
C12_ValidatedRunEndsInSuccess ==
    (pc = "done" /\ result # <<>>) =>
        /\ branch = "success"
        /\ \A i \in Positions("session_end") : trace[i].summary = "success"

\* C12 as amended: the error outcome is reached from the model call, from
\* validation or from writing the result file.  A finished run whose reply
\* validated attempted one session-end: with the success summary when the file
\* was written, with the error summary when and only when writing it failed.
C12_ErrorOnlyFromInvokeValidatePersist ==
    /\ (pc = "done" /\ branch = "error") =>
          \/ InvokeOrValidationFailed
          \/ result # <<>> /\ persist_outcome = "failed"
    /\ (pc = "done" /\ result # <<>>) =>
          /\ Attempts("session_end") = 1
          /\ persist_outcome \in {"ok", "failed"}
          /\ \A i \in Positions("session_end") :
               \/ persist_outcome = "ok" /\ trace[i].summary = "success"
                    /\ branch = "success"
               \/ persist_outcome = "failed" /\ trace[i].summary = "error"
                    /\ trace[i].error_text = "PersistError" /\ branch = "error"

\* C12 witness: a finished run whose reply validated, whose prompt and response
\* were logged, and whose result file could not be written
C12_Witness ==
    /\ pc = "done"
    /\ result # <<>>
    /\ Attempts("llm_response") = 1
    /\ persist_outcome = "failed"
    /\ \E i \in Positions("session_end") : trace[i].summary = "error"

\* C13: whenever usage is recorded its total is input plus output, and a
\* response-logged event carries the three counts exactly as the extractor
\* holds them after on_llm_end (none of them when on_llm_end recorded none).
C13_ResponseCarriesRecordedUsage ==
    /\ metadata["usage"] # <<>> =>
         metadata["usage"][1].total_tokens =
            metadata["usage"][1].input_tokens + metadata["usage"][1].output_tokens
    /\ \A i \in Positions("llm_response") :
         /\ trace[i].tokens # <<>>
         /\ IF metadata["usage"] = <<>>
            THEN trace[i].tokens[1] =
                   [input_tokens |-> <<>>, output_tokens |-> <<>>, total_tokens |-> <<>>]
            ELSE /\ trace[i].tokens[1].input_tokens = <<metadata["usage"][1].input_tokens>>
                 /\ trace[i].tokens[1].output_tokens = <<metadata["usage"][1].output_tokens>>
                 /\ trace[i].tokens[1].total_tokens = <<metadata["usage"][1].total_tokens>>
                 /\ trace[i].tokens[1].total_tokens[1] =
                      trace[i].tokens[1].input_tokens[1] + trace[i].tokens[1].output_tokens[1]

\* C13 witness: a response-logged event carrying non-zero counts
C13_Witness ==
    \E i \in Positions("llm_response") :
        /\ trace[i].tokens[1].input_tokens = <<2>>
        /\ trace[i].tokens[1].output_tokens = <<5>>
        /\ trace[i].tokens[1].total_tokens = <<7>>

\* C16: for a non-empty item list the prompt handed to the model holds every
\* item, verbatim and in input order, and the format instructions once.
IsItem(piece) == piece \in Items
IsFormatInstructions(piece) == piece = FormatInstructions
C16_PromptHoldsItemsAndInstructions ==
    (ingredients # <<>> /\ calls > 0) =>
        /\ metadata["input_prompts"] = <<sent_prompt>>
        /\ SelectSeq(sent_prompt, IsItem) = ingredients
        /\ Len(SelectSeq(sent_prompt, IsFormatInstructions)) = 1

\* C16 witness: the model was asked with a list of two different items
C16_Witness ==
    /\ calls = 1
    /\ ingredients = <<"rice", "chicken">>

\* C17: a finished run whose model call or validation failed attempted
\* session-start and session-end and nothing else; prompt-logged and
\* response-logged are attempted only once the reply has validated.
C17_NoPromptOrResponseLogOnFailure ==
    /\ (pc = "done" /\ InvokeOrValidationFailed) =>
          TelemetryKindsInOrder = <<"session_start", "session_end">>
    /\ (Attempts("llm_call") > 0 \/ Attempts("llm_response") > 0) =>
          (ReplyConforms /\ result # <<>>)

\* C17 witness: a finished run with a schema-violating reply
C17_Witness ==
    /\ pc = "done"
    /\ error = "SchemaViolation"
    /\ TelemetryKindsInOrder = <<"session_start", "session_end">>

\* C18: a finished run attempted session-end exactly once, on every path, so
\* never both a success and an error summary, also when that call failed.
C18_ExactlyOneSessionEnd ==
    /\ pc = "done" => Attempts("session_end") = 1
    /\ pc # "done" => Attempts("session_end") = 0
    /\ ~(\E i, j \in Positions("session_end") :
            trace[i].summary = "success" /\ trace[j].summary = "error")

\* C18 witness: a finished run on the success path whose session-end call failed
C18_Witness ==
    /\ pc = "done"
    /\ persist_outcome = "ok"
    /\ \E i \in Positions("session_end") : ~trace[i].ok /\ trace[i].summary = "success"

\* C19: every telemetry event of a run carries the run id; session-start and
\* session-end carry prompt_number 1 and turn_number 0, prompt-logged and
\* response-logged carry prompt_number 1 and turn_number 1.
C19_SessionIdAndSequenceNumbers ==
    \A i \in TelemetryPositions :
        /\ trace[i].session_id = run_id
        /\ trace[i].prompt_number = 1
        /\ trace[i].turn_number =
             IF trace[i].kind \in {"session_start", "session_end"} THEN 0 ELSE 1

\* C19 witness: a finished run that attempted all four events
C19_Witness ==
    /\ pc = "done"
    /\ \A k \in TelemetryKinds : Attempts(k) = 1
    /\ run_id = "recipe-gen-0b"

(* Properties of the callbacks, continued *)

\* C14: on_llm_error changes the error entry of the metadata and nothing else.
C14_OnErrorChangesOnlyError ==
    [][(pc = "cb_running" /\ pc' = "cb_idle" /\ model_outcome' \in ModelFailures) =>
         /\ metadata'["error"] = <<model_outcome'>>
         /\ \A k \in MetadataKeys \ {"error"} : metadata'[k] = metadata[k]]_vars

\* C14 witness: on_llm_error has run on an extractor that held the usage of an
\* earlier call, and the usage is still there
C14_Witness ==
    /\ pc = "cb_idle"
    /\ model_outcome \in ModelFailures
    /\ metadata["error"] # <<>>
    /\ metadata["usage"] # <<>>
    /\ metadata["usage"][1].total_tokens > 0

\* C15: after a call, the metadata hold only what that call recorded: no error
\* after a call that ended with on_llm_end, no usage, end time or duration
\* after a call that ended with on_llm_error.
C15_MetadataOnlyOfLastCall ==
    (pc = "cb_idle" /\ calls > 0) =>
        /\ model_outcome = "reply" => metadata["error"] = <<>>
        /\ model_outcome \in ModelFailures =>
             /\ metadata["usage"] = <<>>
             /\ metadata["end_time"] = <<>>
             /\ metadata["duration"] = <<>>
             /\ metadata["model"] = <<>>

====
